---- MODULE Spec2Model ----
(***************************************************************************)
(* Telemetry tracking of the CLI: the per-command telemetry client         *)
(* (ListTelemetryClient and its siblings), the event store it records      *)
(* into, the MockClient test fixture that owns the store, and the command  *)
(* handlers that drive them.                                               *)
(*                                                                         *)
(* Encoding of TypeScript values:                                          *)
(*   - an optional parameter x?: T is a sequence of length 0 (undefined)   *)
(*     or 1 (the value): None, Some(v);                                    *)
(*   - a string is a TLA+ string, except where the code looks inside it    *)
(*     (trim, toLowerCase): there it is a sequence of one-character        *)
(*     strings;                                                            *)
(*   - a string[] is a sequence of strings;                                *)
(*   - the event store is the sequence of the events recorded, oldest      *)
(*     first.                                                              *)
(***************************************************************************)
EXTENDS Integers, Sequences, FiniteSets, TLC

VARIABLES
    events,      \* client.telemetryEventStore: the recorded events, in order
    storeClass,  \* class of client.telemetryEventStore
    stderr,      \* what client.output / client.stderr has been written, in order
    apiLog,      \* calls made to collaborators (API, prompts, disk), in order
    call,        \* the last telemetry method called directly on the client
    runs,        \* command invocations since the fixture was last reset
    cmd,         \* the running command invocation: its name and its inputs
    pc,          \* where the running command invocation stands
    exitCode,    \* what the command handler returned (NoExit: nothing yet)
    saved,       \* how the save of the store at the end of the process went
    processExit  \* the exit code of the process once the store is saved

vars == <<events, storeClass, stderr, apiLog, call, runs, cmd, pc, exitCode, saved, processExit>>

----------------------------------------------------------------------------
(* Bounds *)

\* direct calls of tracking methods between two resets record at most this many events
MaxEvents == 3
\* command invocations between two resets of the fixture
MaxRuns == 1
\* length of a chunk typed on stdin
MaxInput == 2

----------------------------------------------------------------------------
(* TypeScript values *)

None == <<>>
Some(v) == <<v>>
Optional(S) == {None} \cup {Some(v) : v \in S}

\* JavaScript truthiness of an optional string / number / boolean / array
TruthyString(x) == Len(x) = 1 /\ x[1] # ""
TruthyNumber(x) == Len(x) = 1 /\ x[1] # 0
TruthyBoolean(x) == Len(x) = 1 /\ x[1] = TRUE
TruthyArray(x) == Len(x) = 1

NoExit == -1
NoCall == [op |-> "none", arg |-> None]
NoCmd == [name |-> "none"]

----------------------------------------------------------------------------
(* The base telemetry client and the event store *)

\* TelemetryClient.redactedValue
redactedValue == "[REDACTED]"

\* TelemetryEventStore.add / record(event)
TelemetryEventStore_add(store, event) == Append(store, event)

\* TelemetryEventStore.reset()
TelemetryEventStore_reset(store) == <<>>

\* TelemetryClient.trackCliOption({option, value})
trackCliOption(store, option, value) ==
    TelemetryEventStore_add(store, [kind |-> "option", key |-> option, value |-> value])

\* TelemetryClient.trackCliFlag(flag)
trackCliFlag(store, flag) ==
    TelemetryEventStore_add(store, [kind |-> "flag", key |-> flag, value |-> "TRUE"])

\* TelemetryClient.trackCliArgument({arg, value})
trackCliArgument(store, arg, value) ==
    TelemetryEventStore_add(store, [kind |-> "argument", key |-> arg, value |-> value])

----------------------------------------------------------------------------
(* ListTelemetryClient: one operator per method, store before -> store after *)

\* variant: the guard forgets the length test
trackCliOptionMeta_AnyArray(store, meta) ==
    IF TruthyArray(meta)
    THEN trackCliOption(store, "meta", redactedValue)
    ELSE store

trackCliOptionMeta(store, meta) ==
    IF TruthyArray(meta) /\ Len(meta[1]) > 0
    THEN trackCliOption(store, "meta", redactedValue)
    ELSE store

\* variant: one event per element of the array
RECURSIVE trackCliOptionPolicy_PerElement(_, _)
trackCliOptionPolicy_PerElement(store, policy) ==
    IF TruthyArray(policy) /\ Len(policy[1]) > 0
    THEN trackCliOptionPolicy_PerElement(
             trackCliOption(store, "policy", redactedValue), Some(Tail(policy[1])))
    ELSE store

trackCliOptionPolicy(store, policy) ==
    IF TruthyArray(policy) /\ Len(policy[1]) > 0
    THEN trackCliOption(store, "policy", redactedValue)
    ELSE store

\* variant: || for &&, so that the allow-list never matches
trackCliOptionEnvironment_RedactAll(store, environment) ==
    IF TruthyString(environment)
    THEN LET value == IF environment[1] # "production" \/ environment[1] # "preview"
                      THEN redactedValue
                      ELSE environment[1]
         IN  trackCliOption(store, "environment", value)
    ELSE store

\* variant: a literal of its own for the placeholder
trackCliOptionEnvironment_OwnLiteral(store, environment) ==
    IF TruthyString(environment)
    THEN LET value == IF environment[1] # "production" /\ environment[1] # "preview"
                      THEN "REDACTED"
                      ELSE environment[1]
         IN  trackCliOption(store, "environment", value)
    ELSE store

trackCliOptionEnvironment(store, environment) ==
    IF TruthyString(environment)
    THEN LET value == IF environment[1] # "production" /\ environment[1] # "preview"
                      THEN redactedValue
                      ELSE environment[1]
         IN  trackCliOption(store, "environment", value)
    ELSE store

trackCliOptionNext(store, next) ==
    IF TruthyNumber(next)
    THEN trackCliOption(store, "next", redactedValue)
    ELSE store

trackCliFlagProd(store, flag) ==
    IF TruthyBoolean(flag) THEN trackCliFlag(store, "prod") ELSE store

\* variant: records whenever the flag is given, false included
trackCliFlagYes_WhenDefined(store, flag) ==
    IF Len(flag) = 1 THEN trackCliFlag(store, "yes") ELSE store

trackCliFlagYes(store, flag) ==
    IF TruthyBoolean(flag) THEN trackCliFlag(store, "yes") ELSE store

trackCliFlagConfirm(store, flag) ==
    IF TruthyBoolean(flag) THEN trackCliFlag(store, "confirm") ELSE store

\* variant: records the argument as typed
trackCliArgumentApp_Verbatim(store, app) ==
    IF TruthyString(app)
    THEN trackCliArgument(store, "app", app[1])
    ELSE store

trackCliArgumentApp(store, app) ==
    IF TruthyString(app)
    THEN trackCliArgument(store, "app", redactedValue)
    ELSE store

----------------------------------------------------------------------------
(* Inputs *)

StringArrays == {<<>>, <<"k=v">>, <<"k=v", "[REDACTED]">>}
Numbers == {0, 1, 20}
Environments == {"", "production", "preview", "Production", "staging", "[REDACTED]"}
Apps == {"", "my-app", "[REDACTED]"}

\* the tracking methods of ListTelemetryClient and the arguments each is called with
TrackerInputs(op) ==
    CASE op = "trackCliOptionMeta" -> Optional(StringArrays)
      [] op = "trackCliOptionPolicy" -> Optional(StringArrays)
      [] op = "trackCliOptionEnvironment" -> Optional(Environments)
      [] op = "trackCliOptionNext" -> Optional(Numbers)
      [] op = "trackCliFlagProd" -> Optional(BOOLEAN)
      [] op = "trackCliFlagYes" -> Optional(BOOLEAN)
      [] op = "trackCliFlagConfirm" -> Optional(BOOLEAN)
      [] op = "trackCliArgumentApp" -> Optional(Apps)

Trackers ==
    {"trackCliOptionMeta", "trackCliOptionPolicy", "trackCliOptionEnvironment",
     "trackCliOptionNext", "trackCliFlagProd", "trackCliFlagYes",
     "trackCliFlagConfirm", "trackCliArgumentApp"}

\* method dispatch on the client
Track(op, store, arg) ==
    CASE op = "trackCliOptionMeta" -> trackCliOptionMeta(store, arg)
      [] op = "trackCliOptionPolicy" -> trackCliOptionPolicy(store, arg)
      [] op = "trackCliOptionEnvironment" -> trackCliOptionEnvironment(store, arg)
      [] op = "trackCliOptionNext" -> trackCliOptionNext(store, arg)
      [] op = "trackCliFlagProd" -> trackCliFlagProd(store, arg)
      [] op = "trackCliFlagYes" -> trackCliFlagYes(store, arg)
      [] op = "trackCliFlagConfirm" -> trackCliFlagConfirm(store, arg)
      [] op = "trackCliArgumentApp" -> trackCliArgumentApp(store, arg)

----------------------------------------------------------------------------
(* The fixture *)

\* variant: the store is left as it is
MockClient_reset_KeepStore(c) == [c EXCEPT !.stderr = <<>>]

\* MockClient.reset(): fresh streams and output, and the store reset
MockClient_reset(c) ==
    [c EXCEPT !.stderr = <<>>,
              !.events = TelemetryEventStore_reset(c.events)]

\* new MockClient(): a MockTelemetryEventStore, then this.reset()
Init ==
    /\ storeClass \in {"MockTelemetryEventStore", "TelemetryEventStore"}
    /\ LET c == MockClient_reset([stderr |-> <<>>, events |-> <<>>])
       IN  events = c.events /\ stderr = c.stderr
    /\ apiLog = <<>>
    /\ call = NoCall
    /\ runs = 0
    /\ cmd = NoCmd
    /\ pc = "idle"
    /\ exitCode = NoExit
    /\ saved = "no"
    /\ processExit = NoExit

\* a test calls one tracking method of the telemetry client
TrackCall ==
    /\ pc = "idle" /\ runs = 0
    /\ storeClass = "MockTelemetryEventStore"
    /\ Len(events) < MaxEvents
    /\ \E op \in Trackers : \E arg \in TrackerInputs(op) :
          /\ events' = Track(op, events, arg)
          /\ call' = [op |-> op, arg |-> arg]
    /\ UNCHANGED <<storeClass, stderr, apiLog, runs, cmd, pc, exitCode, saved, processExit>>

\* afterEach: client.reset()
AfterEach ==
    /\ storeClass = "MockTelemetryEventStore"
    /\ pc \in {"idle", "returned", "rejected", "exited"}
    /\ LET c == MockClient_reset([stderr |-> stderr, events |-> events])
       IN  events' = c.events /\ stderr' = c.stderr
    /\ apiLog' = <<>>
    /\ call' = [op |-> "reset", arg |-> None]
    /\ runs' = 0
    /\ cmd' = NoCmd
    /\ pc' = "idle"
    /\ exitCode' = NoExit
    /\ saved' = "no"
    /\ processExit' = NoExit
    /\ UNCHANGED storeClass

----------------------------------------------------------------------------
(* Strings the code looks inside: sequences of one-character strings *)

Whitespace == {" ", "\t", "\n"}

RECURSIVE trimStart(_)
trimStart(s) ==
    IF s # <<>> /\ Head(s) \in Whitespace THEN trimStart(Tail(s)) ELSE s

RECURSIVE trimEnd(_)
trimEnd(s) ==
    IF s # <<>> /\ s[Len(s)] \in Whitespace
    THEN trimEnd(SubSeq(s, 1, Len(s) - 1))
    ELSE s

\* String.prototype.trim
trim(s) == trimEnd(trimStart(s))

lowerChar(c) ==
    CASE c = "Y" -> "y"
      [] c = "N" -> "n"
      [] OTHER -> c

\* String.prototype.toLowerCase
toLowerCase(s) == [i \in 1..Len(s) |-> lowerChar(s[i])]

----------------------------------------------------------------------------
(* Bookkeeping shared by the command handlers *)

\* a command handler is invoked: what the store and the logs held before it
Invocation(name, input) ==
    [name |-> name, input |-> input,
     evStart |-> Len(events), errStart |-> Len(stderr), apiStart |-> Len(apiLog)]

\* what the running invocation has recorded, written and called so far
Tracked == SubSeq(events, cmd.evStart + 1, Len(events))
Written == SubSeq(stderr, cmd.errStart + 1, Len(stderr))
Called == SubSeq(apiLog, cmd.apiStart + 1, Len(apiLog))

ApiCall(fn, arg) == [fn |-> fn, arg |-> arg]

\* a test awaits one command handler at a time
CanInvoke ==
    /\ pc \in {"idle", "returned"}
    /\ storeClass = "MockTelemetryEventStore" \/ runs = 0
    /\ call.op \in {"none", "reset"}
    /\ runs < MaxRuns

\* the handler returns code
Return(code) ==
    /\ pc' = "returned"
    /\ exitCode' = code

\* an awaited collaborator rejects and the handler does not catch it
Reject ==
    /\ pc' = "rejected"
    /\ UNCHANGED <<events, stderr, apiLog, exitCode>>

----------------------------------------------------------------------------
(* dns rm *)

\* DnsRmTelemetryClient.trackCliArgumentRecordId
trackCliArgumentRecordId(store, recordId) ==
    IF TruthyString(recordId)
    THEN trackCliArgument(store, "recordId", redactedValue)
    ELSE store

RmArgs == {<<>>, <<"">>, <<"rec_1">>, <<"rec_1", "rec_2">>}
StdinChars == {"y", "Y", "n", " ", "\n"}
StdinChunks == UNION {[1..n -> StdinChars] : n \in 0..MaxInput}

\* the DNS record the API holds under an id
DnsRecord(id) == [id |-> id, domain |-> "example.com"]

\* variant: any answer that starts with y
readConfirmation_StartsWith(d) ==
    LET t == toLowerCase(trim(d)) IN t # <<>> /\ t[1] = "y"

\* the answer readConfirmation resolves with on the chunk d
readConfirmation(d) == toLowerCase(trim(d)) = <<"y">>

\* rm(client, _opts, args) up to `await getScope(client)`
Rm ==
    /\ CanInvoke
    /\ \E args \in RmArgs :
          cmd' = Invocation("dns rm", [args |-> args, record |-> None, d |-> None])
    /\ runs' = runs + 1
    /\ apiLog' = Append(apiLog, ApiCall("getScope", None))
    /\ pc' = "rm_getScope"
    /\ exitCode' = NoExit
    /\ UNCHANGED <<events, storeClass, stderr, call, saved, processExit>>

\* from getScope's result to `await getDNSRecordById(client, recordId)`
RmAfterGetScope ==
    /\ pc = "rm_getScope"
    /\ LET args == cmd.input.args IN
       \/ Reject
       \/ /\ Len(args) # 1
          /\ stderr' = Append(stderr, "error: Invalid number of arguments")
          /\ Return(1)
          /\ UNCHANGED <<events, apiLog>>
       \/ /\ Len(args) = 1
          /\ events' = trackCliArgumentRecordId(events, Some(args[1]))
          /\ apiLog' = Append(apiLog, ApiCall("getDNSRecordById", args[1]))
          /\ pc' = "rm_getDNSRecordById"
          /\ UNCHANGED <<stderr, exitCode>>
    /\ UNCHANGED <<storeClass, call, runs, cmd, saved, processExit>>

\* from getDNSRecordById's result to the prompt of readConfirmation
RmAfterGetRecord ==
    /\ pc = "rm_getDNSRecordById"
    /\ \/ Reject /\ UNCHANGED cmd
       \/ \E record \in Optional({DnsRecord(cmd.input.args[1])}) :
             /\ cmd' = [cmd EXCEPT !.input.record = record]
             /\ IF record = None
                THEN /\ stderr' = Append(stderr, "error: DNS record not found")
                     /\ Return(1)
                ELSE /\ stderr' = stderr \o <<"log: The following record will be removed permanently",
                                              "print: table",
                                              "print: > Are you sure? (y/N) ">>
                     /\ pc' = "rm_readConfirmation"
                     /\ UNCHANGED exitCode
             /\ UNCHANGED <<events, apiLog>>
    /\ UNCHANGED <<storeClass, call, runs, saved, processExit>>

\* stdin's 'data' event with the chunk d, to `await deleteDNSRecordById(...)`
RmAfterReadConfirmation ==
    /\ pc = "rm_readConfirmation"
    /\ \E d \in StdinChunks :
          LET yes == readConfirmation(d)
              record == cmd.input.record[1]
          IN  /\ cmd' = [cmd EXCEPT !.input.d = Some(d)]
              /\ IF ~yes
                 THEN /\ stderr' = Append(stderr, "error: User canceled.")
                      /\ Return(0)
                      /\ UNCHANGED apiLog
                 ELSE /\ apiLog' = Append(apiLog,
                             ApiCall("deleteDNSRecordById", <<record.domain, record.id>>))
                      /\ pc' = "rm_deleteDNSRecordById"
                      /\ UNCHANGED <<stderr, exitCode>>
    /\ UNCHANGED <<events, storeClass, call, runs, saved, processExit>>

\* from deleteDNSRecordById's result to the return
RmAfterDelete ==
    /\ pc = "rm_deleteDNSRecordById"
    /\ \/ Reject
       \/ /\ stderr' = Append(stderr, "success: Record removed")
          /\ Return(0)
          /\ UNCHANGED <<events, apiLog>>
    /\ UNCHANGED <<storeClass, call, runs, cmd, saved, processExit>>

----------------------------------------------------------------------------
(* pull *)

\* PullTelemetryClient.trackCliOptionGitBranch
trackCliOptionGitBranch(store, gitBranch) ==
    IF TruthyString(gitBranch)
    THEN trackCliOption(store, "git-branch", redactedValue)
    ELSE store

\* what parseArguments hands to main: it throws (parsed = FALSE) or gives the
\* flags; target is what parseTarget makes of them
PullInputs ==
    {[parsed |-> FALSE, help |-> FALSE, yes |-> None, prod |-> None,
      gitBranch |-> None, environment |-> None, target |-> None]}
    \cup
    [parsed : {TRUE},
     help : BOOLEAN,
     yes : Optional({TRUE}),
     prod : Optional({TRUE}),
     gitBranch : Optional({"", "main"}),
     environment : Optional({"", "production", "staging"}),
     target : Optional({"preview"})]

\* variant: prod tracked before yes
PullTrack_ProdFirst(store, autoConfirm, isProduction, gitBranch, environment) ==
    LET s1 == trackCliFlagProd(store, Some(isProduction))
        s2 == trackCliFlagYes(s1, Some(autoConfirm))
        s3 == trackCliOptionGitBranch(s2, gitBranch)
    IN  trackCliOptionEnvironment(s3, environment)

\* main's telemetry: lines 98-101, in the order of the code
PullTrack(store, autoConfirm, isProduction, gitBranch, environment) ==
    LET s1 == trackCliFlagYes(store, Some(autoConfirm))
        s2 == trackCliFlagProd(s1, Some(isProduction))
        s3 == trackCliOptionGitBranch(s2, gitBranch)
    IN  trackCliOptionEnvironment(s3, environment)

\* the environment main passes on: parseTarget(...) || 'development'
PullEnvironment(target) == IF TruthyString(target) THEN target[1] ELSE "development"

\* variant: the environment main passes on is tracked
PullTrackedEnvironment_Effective(flags) == Some(PullEnvironment(flags.target))

\* what main hands to trackCliOptionEnvironment: parsedArgs.flags['--environment']
PullTrackedEnvironment(flags) == flags.environment

\* main(client) up to `await ensureLink(...)` in pullCommandLogic
Pull ==
    /\ CanInvoke
    /\ \E flags \in PullInputs :
          /\ cmd' = Invocation("pull", flags)
          /\ IF ~flags.parsed
             THEN /\ stderr' = Append(stderr, "error: handleError")
                  /\ Return(1)
                  /\ UNCHANGED <<events, apiLog>>
             ELSE IF flags.help
             THEN /\ stderr' = Append(stderr, "print: help")
                  /\ Return(2)
                  /\ UNCHANGED <<events, apiLog>>
             ELSE LET autoConfirm == TruthyBoolean(flags.yes)
                      isProduction == TruthyBoolean(flags.prod)
                  IN  /\ events' = PullTrack(events, autoConfirm, isProduction,
                                             flags.gitBranch, PullTrackedEnvironment(flags))
                      /\ apiLog' = Append(apiLog, ApiCall("ensureLink", autoConfirm))
                      /\ pc' = "pull_ensureLink"
                      /\ exitCode' = NoExit
                      /\ UNCHANGED stderr
    /\ runs' = runs + 1
    /\ UNCHANGED <<storeClass, call, saved, processExit>>

\* from ensureLink's result to `await envPullCommandLogic(...)` in pullAllEnvFiles
PullAfterEnsureLink ==
    /\ pc = "pull_ensureLink"
    /\ \/ Reject
       \/ \E link \in {0, 1} :
             /\ Return(link)
             /\ UNCHANGED <<events, stderr, apiLog>>
       \/ /\ apiLog' = Append(apiLog,
                 ApiCall("envPullCommandLogic", PullEnvironment(cmd.input.target)))
          /\ pc' = "pull_envPullCommandLogic"
          /\ UNCHANGED <<events, stderr, exitCode>>
    /\ UNCHANGED <<storeClass, call, runs, cmd, saved, processExit>>

\* from envPullCommandLogic's result to `await writeProjectSettings(...)`
PullAfterEnvPull ==
    /\ pc = "pull_envPullCommandLogic"
    /\ \/ Reject
       \/ /\ stderr' = stderr \o <<"print: \n", "log: Downloading project settings">>
          /\ apiLog' = Append(apiLog, ApiCall("writeProjectSettings", None))
          /\ pc' = "pull_writeProjectSettings"
          /\ UNCHANGED <<events, exitCode>>
    /\ UNCHANGED <<storeClass, call, runs, cmd, saved, processExit>>

\* from writeProjectSettings's result to the return
PullAfterWriteProjectSettings ==
    /\ pc = "pull_writeProjectSettings"
    /\ \/ Reject
       \/ /\ stderr' = Append(stderr, "print: Downloaded project settings")
          /\ Return(0)
          /\ UNCHANGED <<events, apiLog>>
    /\ UNCHANGED <<storeClass, call, runs, cmd, saved, processExit>>

----------------------------------------------------------------------------
(* dns import *)

\* DnsImportTelemetryClient.trackCliArgumentDomain
trackCliArgumentDomain(store, domain) ==
    IF TruthyString(domain)
    THEN trackCliArgument(store, "domain", redactedValue)
    ELSE store

\* DnsImportTelemetryClient.trackCliArgumentZoneFilePath
trackCliArgumentZoneFilePath(store, path) ==
    IF TruthyString(path)
    THEN trackCliArgument(store, "zoneFilePath", redactedValue)
    ELSE store

ImportArgs ==
    {<<>>, <<"example.com">>, <<"example.com", "zone.txt">>, <<"", "zone.txt">>,
     <<"example.com", "zone.txt", "extra">>}

\* variant: the arguments are tracked before their number is checked
ImportArguments_TrackFirst(store, args) ==
    LET s1 == IF Len(args) >= 1 THEN trackCliArgumentDomain(store, Some(args[1])) ELSE store
        s2 == IF Len(args) >= 2 THEN trackCliArgumentZoneFilePath(s1, Some(args[2])) ELSE s1
    IN  [ok |-> Len(args) = 2, events |-> s2]

\* add: the check of args.length, then the two tracking calls (lines 26-38)
ImportArguments(store, args) ==
    IF Len(args) # 2
    THEN [ok |-> FALSE, events |-> store]
    ELSE [ok |-> TRUE,
          events |-> trackCliArgumentZoneFilePath(
                         trackCliArgumentDomain(store, Some(args[1])), Some(args[2]))]

\* add(client, opts, args) up to `await getScope(client)`
Import ==
    /\ CanInvoke
    /\ \E args \in ImportArgs : cmd' = Invocation("dns import", [args |-> args])
    /\ runs' = runs + 1
    /\ apiLog' = Append(apiLog, ApiCall("getScope", None))
    /\ pc' = "import_getScope"
    /\ exitCode' = NoExit
    /\ UNCHANGED <<events, storeClass, stderr, call, saved, processExit>>

\* from getScope's result to `await importZonefile(...)`
ImportAfterGetScope ==
    /\ pc = "import_getScope"
    /\ LET args == cmd.input.args
           checked == ImportArguments(events, args)
       IN  \/ Reject
           \/ /\ ~checked.ok
              /\ events' = checked.events
              /\ stderr' = Append(stderr, "error: Invalid number of arguments")
              /\ Return(1)
              /\ UNCHANGED apiLog
           \/ /\ checked.ok
              /\ events' = checked.events
              /\ apiLog' = Append(apiLog, ApiCall("importZonefile", <<args[1], args[2]>>))
              /\ pc' = "import_importZonefile"
              /\ UNCHANGED <<stderr, exitCode>>
    /\ UNCHANGED <<storeClass, call, runs, cmd, saved, processExit>>

\* from importZonefile's result to the return
ImportAfterImportZonefile ==
    /\ pc = "import_importZonefile"
    /\ \/ Reject
       \/ \E recordIds \in {"DomainNotFound", "InvalidDomain", "ids"} :
             /\ stderr' = Append(stderr,
                    CASE recordIds = "DomainNotFound" -> "error: The domain can't be found"
                      [] recordIds = "InvalidDomain" -> "error: The domain doesn't match"
                      [] OTHER -> "success: DNS records created")
             /\ Return(IF recordIds = "ids" THEN 0 ELSE 1)
             /\ UNCHANGED <<events, apiLog>>
    /\ UNCHANGED <<storeClass, call, runs, cmd, saved, processExit>>

----------------------------------------------------------------------------
(* init *)

\* InitTelemetryClient.trackCliArgumentDir
trackCliArgumentDir(store, dir) ==
    IF TruthyString(dir)
    THEN trackCliArgument(store, "dir", redactedValue)
    ELSE store

\* InitTelemetryClient.trackCliFlagForce
trackCliFlagForce(store, flag) ==
    IF TruthyBoolean(flag) THEN trackCliFlag(store, "force") ELSE store

\* InitTelemetryClient.trackCliArgumentExample, called by init once it knows
\* the examples: the literal for a known example, the placeholder otherwise
trackCliArgumentExample(store, example, known) ==
    IF TruthyString(example)
    THEN trackCliArgument(store, "example",
             IF example[1] \in known THEN example[1] ELSE redactedValue)
    ELSE store

\* the examples the API lists
KnownExamples == {"nextjs"}

\* what parseArguments hands to main: it throws (parsed = FALSE) or gives the
\* positional arguments, the command's name first, and the flags
InitInputs ==
    {[parsed |-> FALSE, help |-> FALSE, force |-> None, args |-> <<"init">>]}
    \cup
    [parsed : {TRUE},
     help : BOOLEAN,
     force : Optional({TRUE}),
     args : {<<"init">>, <<"init", "nextjs">>, <<"init", "my-app">>,
             <<"init", "nextjs", "dir">>, <<"init", "nextjs", "dir", "extra">>}]

\* args[i] of a JavaScript array: undefined past its end (i counts from 1 here)
At(args, i) == IF i <= Len(args) THEN Some(args[i]) ELSE None

\* main(client) up to the first await of init(client, flags, args, telemetry):
\* the request for the list of examples
InitMain ==
    /\ CanInvoke
    /\ \E input \in InitInputs :
          /\ cmd' = Invocation("init", input)
          /\ IF ~input.parsed
             THEN /\ stderr' = Append(stderr, "error: handleError")
                  /\ Return(1)
                  /\ UNCHANGED <<events, apiLog>>
             ELSE IF input.help
             THEN /\ stderr' = Append(stderr, "print: help")
                  /\ Return(2)
                  /\ UNCHANGED <<events, apiLog>>
             ELSE IF Len(input.args) > 3
             THEN /\ stderr' = Append(stderr, "error: Too many arguments.")
                  /\ Return(1)
                  /\ UNCHANGED <<events, apiLog>>
             ELSE /\ events' = trackCliFlagForce(
                                   trackCliArgumentDir(events, At(input.args, 3)), input.force)
                  /\ apiLog' = Append(apiLog, ApiCall("init: fetch example list", None))
                  /\ pc' = "init_init"
                  /\ exitCode' = NoExit
                  /\ UNCHANGED stderr
    /\ runs' = runs + 1
    /\ UNCHANGED <<storeClass, call, saved, processExit>>

\* init once the list of examples is there: it tracks the example argument
\* and goes on to its result; what it throws is caught by main, which returns 1
InitAfterInit ==
    /\ pc = "init_init"
    /\ \/ /\ stderr' = Append(stderr, "error: prettyError")
          /\ Return(1)
          /\ UNCHANGED <<events, apiLog>>
       \/ \E code \in {0, 1} :
             /\ events' = trackCliArgumentExample(events, At(cmd.input.args, 2), KnownExamples)
             /\ Return(code)
             /\ UNCHANGED <<stderr, apiLog>>
    /\ UNCHANGED <<storeClass, call, runs, cmd, saved, processExit>>

----------------------------------------------------------------------------
(* target *)

\* TelemetryClient.trackCliSubcommand({subcommand, value})
trackCliSubcommand(store, subcommand, value) ==
    TelemetryEventStore_add(store,
        [kind |-> "subcommand", key |-> subcommand, value |-> value])

\* TargetTelemetryClient.trackCliSubcommandList(actual)
trackCliSubcommandList(store, actual) == trackCliSubcommand(store, "list", actual)

\* what parseArguments hands to main: it throws (parsed = FALSE) or gives the
\* positional arguments, the command's name first, and the flags
TargetInputs ==
    {[parsed |-> FALSE, help |-> FALSE, args |-> <<"target">>]}
    \cup
    [parsed : {TRUE},
     help : BOOLEAN,
     args : {<<"target">>, <<"target", "ls">>, <<"target", "list">>, <<"target", "LS">>,
             <<"target", "rm">>, <<"target", "ls", "extra">>}]

\* variant: the case 'list' is missing
TargetIsList_OnlyLs(subcommand) == subcommand = Some("ls")

\* the switch on subcommand: case 'ls', case 'list'
TargetIsList(subcommand) == subcommand \in {Some("ls"), Some("list")}

\* main(client) up to `await list(client, args)`
Target ==
    /\ CanInvoke
    /\ \E input \in TargetInputs :
          LET subcommand == At(input.args, 2)
              args == SubSeq(input.args, 3, Len(input.args))
          IN  /\ cmd' = Invocation("target", input)
              /\ IF ~input.parsed
                 THEN /\ stderr' = Append(stderr, "error: handleError")
                      /\ Return(1)
                      /\ UNCHANGED <<events, apiLog>>
                 ELSE IF input.help
                 THEN /\ stderr' = Append(stderr, "print: help")
                      /\ Return(2)
                      /\ UNCHANGED <<events, apiLog>>
                 ELSE IF TargetIsList(subcommand)
                 THEN /\ events' = trackCliSubcommandList(events, subcommand[1])
                      /\ apiLog' = Append(apiLog, ApiCall("list", args))
                      /\ pc' = "target_list"
                      /\ exitCode' = NoExit
                      /\ UNCHANGED stderr
                 ELSE /\ stderr' = stderr \o <<"error: invalid subcommand", "print: help">>
                      /\ Return(2)
                      /\ UNCHANGED <<events, apiLog>>
    /\ runs' = runs + 1
    /\ UNCHANGED <<storeClass, call, saved, processExit>>

\* from list's result to the return
TargetAfterList ==
    /\ pc = "target_list"
    /\ \/ Reject
       \/ \E code \in {0, 1} :
             /\ Return(code)
             /\ UNCHANGED <<events, stderr, apiLog>>
    /\ UNCHANGED <<storeClass, call, runs, cmd, saved, processExit>>

----------------------------------------------------------------------------
(* The end of the process: the store is saved, then the process exits *)

\* variant: save throws
MockTelemetryEventStore_save_Throws(store) == "threw"

\* MockTelemetryEventStore.save(): returns at once
MockTelemetryEventStore_save(store) == "returned"

\* TelemetryEventStore.save(): hands the events to the reporting collaborator;
\* a failed delivery is not thrown back
TelemetryEventStore_save(store, delivered) == "returned"

Exit ==
    /\ pc = "returned"
    /\ \E delivered \in BOOLEAN :
          LET mock == storeClass = "MockTelemetryEventStore"
              outcome == IF mock
                         THEN MockTelemetryEventStore_save(events)
                         ELSE TelemetryEventStore_save(events, delivered)
          IN  /\ saved' = IF mock THEN "no-op" ELSE IF delivered THEN "delivered" ELSE "failed"
              /\ pc' = IF outcome = "returned" THEN "exited" ELSE "rejected"
              /\ processExit' = IF outcome = "returned" THEN exitCode ELSE 1
    /\ UNCHANGED <<events, storeClass, stderr, apiLog, call, runs, cmd, exitCode>>

Next ==
    \/ TrackCall
    \/ AfterEach
    \/ Rm
    \/ RmAfterGetScope
    \/ RmAfterGetRecord
    \/ RmAfterReadConfirmation
    \/ RmAfterDelete
    \/ Pull
    \/ PullAfterEnsureLink
    \/ PullAfterEnvPull
    \/ PullAfterWriteProjectSettings
    \/ Import
    \/ ImportAfterGetScope
    \/ ImportAfterImportZonefile
    \/ InitMain
    \/ InitAfterInit
    \/ Target
    \/ TargetAfterList
    \/ Exit

Spec == Init /\ [][Next]_vars

----------------------------------------------------------------------------
(* Properties *)

Last(s) == s[Len(s)]
IsPrefix(s, t) == Len(s) <= Len(t) /\ SubSeq(t, 1, Len(s)) = s

\* the step is a direct call of the tracking method op
IsCallOf(ops) == call'.op \in ops

\* the step is MockClient.reset()
IsReset == call'.op = "reset" /\ runs' = 0

\* the key a tracking method of ListTelemetryClient records under
KeyOf(op) ==
    CASE op = "trackCliOptionMeta" -> "meta"
      [] op = "trackCliOptionPolicy" -> "policy"
      [] op = "trackCliOptionEnvironment" -> "environment"
      [] op = "trackCliOptionNext" -> "next"
      [] op = "trackCliFlagProd" -> "prod"
      [] op = "trackCliFlagYes" -> "yes"
      [] op = "trackCliFlagConfirm" -> "confirm"
      [] op = "trackCliArgumentApp" -> "app"

RedactingTrackers ==
    {"trackCliOptionMeta", "trackCliOptionPolicy", "trackCliOptionNext", "trackCliArgumentApp"}
FlagTrackers == {"trackCliFlagProd", "trackCliFlagYes", "trackCliFlagConfirm"}
OptionalTrackers ==
    {"trackCliOptionMeta", "trackCliOptionPolicy", "trackCliOptionEnvironment",
     "trackCliOptionNext", "trackCliArgumentApp"}

\* C1: whatever trackCliOptionMeta, trackCliOptionPolicy, trackCliOptionNext and
\* trackCliArgumentApp are called with, every event of the store under the key
\* meta, policy, next or app carries the redaction placeholder, and what such a
\* call appends is one event of its own key with the placeholder as value.
C1_SensitiveKeysRedacted ==
    /\ [](\A i \in 1..Len(events) :
             events[i].key \in {"meta", "policy", "next", "app"}
                 => events[i].value = redactedValue)
    /\ [][IsCallOf(RedactingTrackers) /\ events' # events
             => /\ Len(events') = Len(events) + 1
                /\ Last(events').key = KeyOf(call'.op)
                /\ Last(events').value = redactedValue]_vars

C1_Witness ==
    /\ call = [op |-> "trackCliArgumentApp", arg |-> Some("my-app")]
    /\ events # <<>>
    /\ Last(events) = [kind |-> "argument", key |-> "app", value |-> redactedValue]

\* C2: trackCliOptionEnvironment called with a non-empty string appends exactly
\* one option event under the key environment; its value is the input itself
\* when the input is "production" or "preview", the placeholder otherwise.
C2_EnvironmentAllowList ==
    [][IsCallOf({"trackCliOptionEnvironment"}) /\ call'.arg # None /\ call'.arg[1] # ""
          => events' = Append(events,
                 [kind |-> "option", key |-> "environment",
                  value |-> IF call'.arg[1] \in {"production", "preview"}
                            THEN call'.arg[1]
                            ELSE redactedValue])]_vars

C2_Witness ==
    /\ call = [op |-> "trackCliOptionEnvironment", arg |-> Some("preview")]
    /\ events # <<>>
    /\ Last(events) = [kind |-> "option", key |-> "environment", value |-> "preview"]

\* C3: trackCliFlagProd, trackCliFlagYes and trackCliFlagConfirm leave the store
\* as it is when called with false or undefined, and append exactly one flag
\* event named prod, yes or confirm when called with true.
C3_FlagsOnlyWhenSet ==
    [][IsCallOf(FlagTrackers)
          => IF call'.arg = Some(TRUE)
             THEN /\ Len(events') = Len(events) + 1
                  /\ IsPrefix(events, events')
                  /\ Last(events').kind = "flag"
                  /\ Last(events').key = KeyOf(call'.op)
             ELSE events' = events]_vars

C3_Witness ==
    /\ call = [op |-> "trackCliFlagYes", arg |-> Some(FALSE)]
    /\ Len(events) = 1
    /\ events[1].kind = "flag" /\ events[1].key = "confirm"

\* the inputs of an optional tracker that the claim calls absent: undefined,
\* 0, the empty string, the empty array
IsAbsent(op, arg) ==
    \/ arg = None
    \/ op \in {"trackCliOptionMeta", "trackCliOptionPolicy"} /\ arg = Some(<<>>)
    \/ op = "trackCliOptionNext" /\ arg = Some(0)
    \/ op \in {"trackCliOptionEnvironment", "trackCliArgumentApp"} /\ arg = Some("")

\* C4: the trackers of meta, policy, environment, next and app leave the store
\* unchanged when called with undefined, 0, the empty string or the empty array.
C4_AbsentRecordsNothing ==
    [][IsCallOf(OptionalTrackers) /\ IsAbsent(call'.op, call'.arg)
          => events' = events]_vars

C4_Witness ==
    /\ call = [op |-> "trackCliOptionMeta", arg |-> Some(<<>>)]
    /\ Len(events) = 1

\* C5: one call of a tracking method appends at most one event, leaves the
\* events recorded before it as they were, and touches nothing but the store:
\* no output, no call to a collaborator, no change to a running command.
C5_AtMostOneEventNoOtherEffect ==
    [][IsCallOf(Trackers)
          => /\ Len(events') \in {Len(events), Len(events) + 1}
             /\ IsPrefix(events, events')
             /\ UNCHANGED <<stderr, apiLog, pc, cmd, exitCode>>]_vars

C5_Witness ==
    /\ call = [op |-> "trackCliOptionPolicy", arg |-> Some(<<"k=v", "[REDACTED]">>)]
    /\ Len(events) = 2
    /\ events[1].key = "next"
    /\ events[2].key = "policy"
\* the events pull's flags are to leave, in the order the claim gives
PullExpected(flags) ==
    (IF flags.yes = Some(TRUE)
     THEN <<[kind |-> "flag", key |-> "yes", value |-> "TRUE"]>> ELSE <<>>)
    \o (IF flags.prod = Some(TRUE)
        THEN <<[kind |-> "flag", key |-> "prod", value |-> "TRUE"]>> ELSE <<>>)
    \o (IF flags.gitBranch \notin {None, Some("")}
        THEN <<[kind |-> "option", key |-> "git-branch", value |-> redactedValue]>> ELSE <<>>)
    \o (IF flags.environment \notin {None, Some("")}
        THEN <<[kind |-> "option", key |-> "environment",
                value |-> IF flags.environment[1] \in {"production", "preview"}
                          THEN flags.environment[1] ELSE redactedValue]>>
        ELSE <<>>)

\* C6: between resets the store only grows at its end: no step but a reset
\* removes, reorders or changes a recorded event; a tracking call adds what it
\* emits after everything recorded before, duplicates included; and pull leaves
\* its events in the order yes, prod, git-branch, environment.
C6_AppendOnlyInCallOrder ==
    /\ [][~IsReset => IsPrefix(events, events')]_vars
    /\ [][IsCallOf(Trackers) => events' = events \o Track(call'.op, <<>>, call'.arg)]_vars
    /\ [][pc # "pull_ensureLink" /\ pc' = "pull_ensureLink"
             => events' = events \o PullExpected(cmd'.input)]_vars

C6_Witness ==
    /\ pc = "pull_ensureLink"
    /\ Tracked = <<[kind |-> "flag", key |-> "yes", value |-> "TRUE"],
                   [kind |-> "flag", key |-> "prod", value |-> "TRUE"],
                   [kind |-> "option", key |-> "git-branch", value |-> redactedValue],
                   [kind |-> "option", key |-> "environment", value |-> "production"]>>

\* C7: MockClient.reset() leaves the store empty whatever it held, the fixture
\* is in that state after construction and after every reset, and so the first
\* command invoked after a reset starts on an empty store.
C7_ResetEmptiesStore ==
    /\ [][IsReset => events' = <<>>]_vars
    /\ [](runs = 0 /\ call.op \in {"none", "reset"} => events = <<>>)
    /\ [][runs = 0 /\ runs' = 1 => events = <<>> /\ cmd'.evStart = 0]_vars

C7_Witness ==
    /\ call.op = "reset"
    /\ runs = 1
    /\ pc = "rm_getDNSRecordById"
    /\ cmd.evStart = 0
    /\ Len(events) = 1

\* C8: trackCliOptionEnvironment given the placeholder records the placeholder,
\* and given the value it has just recorded it records that value again.
C8_RedactionIdempotent ==
    call.op = "trackCliOptionEnvironment" /\ call.arg # None /\ call.arg[1] # ""
        => /\ events # <<>>
           /\ LET v == Last(events).value
              IN  /\ call.arg[1] = redactedValue => v = redactedValue
                  /\ trackCliOptionEnvironment(<<>>, Some(v))
                        = <<[kind |-> "option", key |-> "environment", value |-> v]>>

C8_Witness ==
    /\ call = [op |-> "trackCliOptionEnvironment", arg |-> Some(redactedValue)]
    /\ Len(events) = 2
    /\ events[1] = [kind |-> "option", key |-> "environment", value |-> redactedValue]
    /\ events[2] = [kind |-> "option", key |-> "environment", value |-> redactedValue]

IsYes(d) ==
    \E i \in 1..Len(d) :
        /\ d[i] \in {"y", "Y"}
        /\ \A j \in (1..Len(d)) \ {i} : d[j] \in {" ", "\t", "\n"}

HasCall(log, fn) == \E i \in 1..Len(log) : log[i].fn = fn
HasPrompt(out) == \E i \in 1..Len(out) : out[i] = "print: > Are you sure? (y/N) "

\* C10: dns rm calls deleteDNSRecordById only once the record was found and
\* the chunk read from stdin, trimmed and lower-cased, is 'y', and then for that
\* record; on any other chunk it returns 0 with no delete; when the lookup finds
\* nothing it returns 1 with no prompt and no delete.
C10_DeleteOnlyAfterConfirmation ==
    /\ [][Len(apiLog') > Len(apiLog) /\ Last(apiLog').fn = "deleteDNSRecordById"
             => /\ cmd'.name = "dns rm"
                /\ cmd'.input.record # None
                /\ cmd'.input.d # None
                /\ IsYes(cmd'.input.d[1])
                /\ Last(apiLog').arg
                      = <<cmd'.input.record[1].domain, cmd'.input.record[1].id>>]_vars
    /\ [](cmd.name = "dns rm" /\ pc = "returned"
             => /\ cmd.input.d # None /\ ~IsYes(cmd.input.d[1])
                   => exitCode = 0 /\ ~HasCall(Called, "deleteDNSRecordById")
                /\ HasCall(Called, "getDNSRecordById") /\ cmd.input.record = None
                   => /\ exitCode = 1
                      /\ ~HasPrompt(Written)
                      /\ ~HasCall(Called, "deleteDNSRecordById"))

C10_Witness ==
    /\ cmd.name = "dns rm"
    /\ pc = "returned"
    /\ exitCode = 0
    /\ cmd.input.d = Some(<<"Y", "\n">>)
    /\ Last(Called).fn = "deleteDNSRecordById"
ArgumentEvent(key) == [kind |-> "argument", key |-> key, value |-> redactedValue]
FlagEvent(key) == [kind |-> "flag", key |-> key, value |-> "TRUE"]
IfGiven(arg, event) == IF arg \notin {None, Some("")} THEN <<event>> ELSE <<>>

C12_SubcommandEventOnlyForList ==
    cmd.name = "target"
        => LET typed == At(cmd.input.args, 2)
               isList == cmd.input.parsed /\ ~cmd.input.help
                         /\ typed \in {Some("ls"), Some("list")}
           IN  /\ isList
                    => /\ Tracked = <<[kind |-> "subcommand", key |-> "list",
                                       value |-> typed[1]]>>
                       /\ HasCall(Called, "list")
               /\ ~isList
                    => /\ Tracked = <<>>
                       /\ Called = <<>>
                       /\ pc \in {"returned", "exited"}
                       /\ cmd.input.parsed => exitCode = 2

C12_Witness ==
    /\ cmd.name = "target"
    /\ cmd.input.args = <<"target", "list">>
    /\ pc = "target_list"
    /\ Tracked = <<[kind |-> "subcommand", key |-> "list", value |-> "list"]>>
HasKey(evs, key) == \E i \in 1..Len(evs) : evs[i].key = key

\* C13: pull records no environment event when --environment is absent,
\* whatever environment it passes on, and that one is 'development' when
\* parseTarget gives none; with --help it returns 2 with nothing recorded and
\* nothing called; and every event of pull is in the store when ensureLink, the
\* first call of pullCommandLogic, is made: no later step of pull records any.
C13_PullTracksWhatWasTyped ==
    /\ [](cmd.name = "pull"
             => /\ cmd.input.environment = None => ~HasKey(Tracked, "environment")
                /\ \A i \in 1..Len(Called) :
                       Called[i].fn = "envPullCommandLogic" /\ cmd.input.target = None
                           => Called[i].arg = "development"
                /\ cmd.input.parsed /\ cmd.input.help
                       => /\ pc \in {"returned", "exited"}
                          /\ exitCode = 2
                          /\ Tracked = <<>>
                          /\ Called = <<>>
                /\ HasCall(Called, "ensureLink") => Tracked = PullExpected(cmd.input))
    /\ [][(pc \in {"pull_ensureLink", "pull_envPullCommandLogic", "pull_writeProjectSettings"})
             => events' = events]_vars

C13_Witness ==
    /\ cmd.name = "pull"
    /\ cmd.input.environment = None
    /\ cmd.input.target = None
    /\ pc = "pull_envPullCommandLogic"
    /\ Last(Called) = [fn |-> "envPullCommandLogic", arg |-> "development"]
    /\ Tracked = <<[kind |-> "flag", key |-> "prod", value |-> "TRUE"]>>
====
